---- MODULE Spec2Model ----
(***************************************************************************)
(* A model of the Productiv MCP server (productiv-mcp): the TTL cache      *)
(* (class Cache), the cached API gateway (class ProductivAPI) and the      *)
(* error handling of the tool layer (CallTool handler).                    *)
(*                                                                         *)
(* Six specifications share the variables:                                 *)
(*   CacheSpec     a client of the Cache class alone: set, get, delete,    *)
(*                 cleanup, clear, with Date.now() moving freely;          *)
(*   Spec          the gateway and the tool layer on top of the same       *)
(*                 cache, the upstream answering as it pleases;            *)
(*   ResolverSpec  the tools that take idOrName, in the three servers of   *)
(*                 the repository, over an upstream with a portfolio;      *)
(*   AnalyzerSpec  find_underutilized_applications in the three servers;   *)
(*   MutationSpec  a client of the Cache class that stores objects and     *)
(*                 changes them afterwards;                                *)
(*   ToolsetSpec   the tool listing and the tool calls of a server started *)
(*                 with a value of MCP_ENABLED_TOOLSETS.                   *)
(***************************************************************************)
EXTENDS Integers, Sequences, FiniteSets, TLC

VARIABLES
    cache,      \* Cache.cache: the Map<string, {data, expires}>
    now,        \* the value Date.now() returns, in milliseconds
    ret,        \* CacheSpec: the Cache operation just performed and what it returned
    hist,       \* CacheSpec: per key, what has happened since the last set on it
    fetched,    \* Spec: the number of upstream requests answered 200 so far
    call,       \* Spec: the last gateway operation called and its outcome, or
                \* that clearCache() was
    tool,       \* the last tool invocation and its outcome
    upstream,   \* ResolverSpec, AnalyzerSpec: the server that runs and the data
                \* the upstream API serves
    heap        \* MutationSpec: the objects a Cache client holds, by reference

vars == <<cache, now, ret, hist, fetched, call, tool, upstream, heap>>

(***************************************************************************)
(* Bounds of the model.                                                    *)
(***************************************************************************)
MaxValue == 2       \* the values a Cache client stores are [v |-> 1..MaxValue]
MaxTtl == 1         \* a Cache client passes ttl in 0..MaxTtl seconds
MaxSeconds == 1     \* CacheSpec: Date.now() ranges over the instants at 0..MaxSeconds s
MaxFetched == 1     \* Spec: the upstream answers 200 to at most MaxFetched requests
MaxApps == 3        \* the upstream lists at most MaxApps applications
MaxContracts == 2   \* AnalyzerSpec: an application has at most MaxContracts contracts
MaxInvocations == 1 \* ResolverSpec, AnalyzerSpec: tool invocations in a behaviour

(***************************************************************************)
(* JavaScript values.                                                      *)
(***************************************************************************)
\* undefined, as a value a function returns or a field holds.
Undefined == [undefined |-> TRUE]

\* The number NaN.  Every time and duration of the model is >= 0, so -1 is
\* free to stand for it; the arithmetic below never computes with it.
NaN == -1

\* a + b, a * b and a < b on numbers: NaN is absorbing and compares false.
Add(a, b) == IF a = NaN \/ b = NaN THEN NaN ELSE a + b
Mul(a, b) == IF a = NaN \/ b = NaN THEN NaN ELSE a * b
Lt(a, b) == a # NaN /\ b # NaN /\ a < b

(***************************************************************************)
(* class Cache                                                             *)
(***************************************************************************)
\* A Map without `key` / with `key` bound to `item`.
MapDelete(c, key) == [k \in DOMAIN c \ {key} |-> c[k]]
MapSet(c, key, item) == [k \in DOMAIN c \cup {key} |-> IF k = key THEN item ELSE c[k]]

\* Mutants of Expired: no entry ever expires; every entry has expired.
ExpiredNever(item, t) == FALSE
ExpiredAlways(item, t) == TRUE

\* if (item.expires < Date.now())
Expired(item, t) == Lt(item.expires, t)

\* Mutant of CacheGet: an expired entry is reported absent but left in the map.
CacheGetKeepsExpired(c, key, t) ==
    IF key \notin DOMAIN c THEN [value |-> Undefined, cache |-> c]
    ELSE IF Expired(c[key], t) THEN [value |-> Undefined, cache |-> c]
    ELSE [value |-> c[key].data, cache |-> c]

\* Cache.get(key) at time t: the value returned and the map afterwards.
CacheGet(c, key, t) ==
    IF key \notin DOMAIN c THEN [value |-> Undefined, cache |-> c]
    ELSE IF Expired(c[key], t) THEN [value |-> Undefined, cache |-> MapDelete(c, key)]
    ELSE [value |-> c[key].data, cache |-> c]

\* Mutant of CacheSet: the ttl is taken as milliseconds.
CacheSetTtlMillis(c, key, data, ttl, t) ==
    MapSet(c, key, [data |-> data, expires |-> Add(t, ttl)])

\* Cache.set(key, data, ttl) at time t.
CacheSet(c, key, data, ttl, t) ==
    MapSet(c, key, [data |-> data, expires |-> Add(t, Mul(ttl, 1000))])

\* Cache.delete(key)
CacheDelete(c, key) == MapDelete(c, key)

\* Mutant of CacheCleanup: an entry at its expiry time is removed as well.
CacheCleanupAtExpiry(c, t) ==
    [k \in {j \in DOMAIN c : ~(Lt(c[j].expires, t) \/ c[j].expires = t)} |-> c[k]]

\* Cache.cleanup() at time t
CacheCleanup(c, t) == [k \in {j \in DOMAIN c : ~Lt(c[j].expires, t)} |-> c[k]]

\* Mutant of CacheClear: only the entries with an expiry time are removed.
CacheClearKeepsUntimed(c) == [k \in {j \in DOMAIN c : c[j].expires = NaN} |-> c[k]]

\* Cache.clear()
CacheClear(c) == [k \in {} |-> Undefined]

\* Cache.size()
CacheSize(c) == Cardinality(DOMAIN c)

(***************************************************************************)
(* CacheSpec: a client of the Cache class.                                 *)
(***************************************************************************)
ClientKeys == {"k1", "k2"}
ClientValues == {[v |-> i] : i \in 1..MaxValue}
ClientTtls == 0..MaxTtl

\* The instants Date.now() takes: each whole second and the millisecond after it.
Instants == {s * 1000 + d : s \in 0..MaxSeconds, d \in {0, 1}}

NoEntry == [none |-> TRUE]
NoOp == [op |-> "none"]
NoCall == [op |-> "none"]
NoTool == [name |-> "none"]
NoUpstream == [server |-> "none"]
NoHeap == <<>>

EntryOf(c, key) == IF key \in DOMAIN c THEN c[key] ELSE NoEntry

\* What has happened to a key since the last set on it (ghost state):
\*   pending   whether that set is still owed its value: it was not followed by
\*             a delete of the key or a clear, and Date.now() has stayed
\*             before the expiry time ever since,
\*   data, expires   what that set stored (kept while pending),
\*   seenExpired   whether a get has found the entry past its expiry since.
Fresh == [pending |-> FALSE, data |-> Undefined, expires |-> 0, seenExpired |-> FALSE]

Drop(h) == [h EXCEPT !.pending = FALSE, !.data = Undefined, !.expires = 0]

Lapse(h, t) == [k \in DOMAIN h |->
                  IF h[k].pending /\ t >= h[k].expires THEN Drop(h[k]) ELSE h[k]]

Get(key) ==
    LET r == CacheGet(cache, key, now)
        before == EntryOf(cache, key)
    IN /\ cache' = r.cache
       /\ ret' = [op |-> "get", key |-> key, value |-> r.value, before |-> before]
       /\ hist' = [hist EXCEPT ![key].seenExpired =
                      @ \/ (before # NoEntry /\ before.expires < now)]
       /\ UNCHANGED <<now, fetched, call, tool, upstream, heap>>

Set(key, data, ttl) ==
    /\ cache' = CacheSet(cache, key, data, ttl, now)
    /\ ret' = [op |-> "set", key |-> key, value |-> Undefined,
               before |-> EntryOf(cache, key)]
    /\ hist' = [hist EXCEPT ![key] =
                   IF ttl = 0 THEN Fresh
                   ELSE [pending |-> TRUE, data |-> data, expires |-> now + ttl * 1000,
                         seenExpired |-> FALSE]]
    /\ UNCHANGED <<now, fetched, call, tool, upstream, heap>>

Delete(key) ==
    /\ cache' = CacheDelete(cache, key)
    /\ ret' = [op |-> "delete", key |-> key, value |-> Undefined,
               before |-> EntryOf(cache, key)]
    /\ hist' = [hist EXCEPT ![key] = Drop(@)]
    /\ UNCHANGED <<now, fetched, call, tool, upstream, heap>>

\* cache.cleanup(); the record keeps the map it found.
Cleanup ==
    /\ cache' = CacheCleanup(cache, now)
    /\ ret' = [op |-> "cleanup", before |-> cache]
    /\ UNCHANGED <<now, hist, fetched, call, tool, upstream, heap>>

Clear ==
    /\ cache' = CacheClear(cache)
    /\ ret' = [op |-> "clear"]
    /\ hist' = [k \in DOMAIN hist |-> Drop(hist[k])]
    /\ UNCHANGED <<now, fetched, call, tool, upstream, heap>>

\* Date.now() is the system clock: it usually advances and may be set back.
ClockMove(t) ==
    /\ t # now
    /\ now' = t
    /\ hist' = Lapse(hist, t)
    /\ ret' = NoOp
    /\ UNCHANGED <<cache, fetched, call, tool, upstream, heap>>

Init ==
    /\ cache = [k \in {} |-> Undefined]
    /\ now = 0
    /\ ret = NoOp
    /\ hist = [k \in ClientKeys |-> Fresh]
    /\ fetched = 0
    /\ call = NoCall
    /\ tool = NoTool
    /\ upstream = NoUpstream
    /\ heap = NoHeap

CacheNext ==
    \/ \E k \in ClientKeys : Get(k)
    \/ \E k \in ClientKeys, d \in ClientValues, ttl \in ClientTtls : Set(k, d, ttl)
    \/ \E k \in ClientKeys : Delete(k)
    \/ Cleanup
    \/ Clear
    \/ \E t \in Instants : ClockMove(t)

CacheSpec == Init /\ [][CacheNext]_vars

(***************************************************************************)
(* MutationSpec: a client of the Cache class whose values are objects.     *)
(* An object is held by reference: the cache entry's data and the value    *)
(* get returns are the reference the client passed to set, and what an     *)
(* object holds is what the heap has for it.                               *)
(***************************************************************************)
Objects == {"o1", "o2"}
Ref(o) == [ref |-> o]

\* What the object a reference leads to holds now.
Deref(heapNow, value) == heapNow[value.ref]

\* cache.set(key, object, ttl).  The ghost state keeps what the object held.
SetObject(key, o, ttl) ==
    /\ cache' = CacheSet(cache, key, Ref(o), ttl, now)
    /\ ret' = [op |-> "set", key |-> key, value |-> Undefined,
               before |-> EntryOf(cache, key), data |-> Ref(o), ttl |-> ttl]
    /\ hist' = [hist EXCEPT ![key] =
                   IF ttl = 0 THEN Fresh
                   ELSE [pending |-> TRUE, data |-> heap[o], expires |-> now + ttl * 1000,
                         seenExpired |-> FALSE]]
    /\ UNCHANGED <<now, fetched, call, tool, upstream, heap>>

\* The client assigns to a field of an object it holds: one it passed to
\* set, which is also the one get gives back.
Mutate(o, data) ==
    /\ heap[o] # data
    /\ heap' = [heap EXCEPT ![o] = data]
    /\ ret' = [op |-> "mutate", object |-> o]
    /\ UNCHANGED <<cache, now, hist, fetched, call, tool, upstream>>

MutationInit ==
    /\ cache = [k \in {} |-> Undefined]
    /\ now = 0
    /\ ret = NoOp
    /\ hist = [k \in ClientKeys |-> Fresh]
    /\ fetched = 0
    /\ call = NoCall
    /\ tool = NoTool
    /\ upstream = NoUpstream
    /\ heap \in [Objects -> ClientValues]

MutationNext ==
    \/ \E k \in ClientKeys : Get(k)
    \/ \E k \in ClientKeys, o \in Objects, ttl \in ClientTtls : SetObject(k, o, ttl)
    \/ \E o \in Objects, d \in ClientValues : Mutate(o, d)
    \/ \E t \in Instants : ClockMove(t)

MutationSpec == MutationInit /\ [][MutationNext]_vars

(***************************************************************************)
(* Strings are sequences of symbols; a symbol is a character or, for the   *)
(* literals of the source, a whole word.                                   *)
(***************************************************************************)
Str(s) == [t |-> "string", s |-> s]
Num(n) == [t |-> "number", n |-> n]

DigitChars == <<"0", "1", "2", "3", "4", "5", "6", "7", "8", "9">>

\* String(n) for an integer n >= 0: its decimal digits.
RECURSIVE Digits(_)
Digits(n) == IF n < 10 THEN <<DigitChars[n + 1]>>
             ELSE Digits(n \div 10) \o <<DigitChars[(n % 10) + 1]>>

DigitValue(c) == CHOOSE d \in 0..9 : DigitChars[d + 1] = c
IsDigit(c) == \E d \in 0..9 : DigitChars[d + 1] = c

\* parseInt(s, 10) for a string without sign or leading blanks: the value of
\* its longest prefix of digits, NaN when that prefix is empty.
RECURSIVE ParseDigits(_, _)
ParseDigits(s, acc) ==
    IF s = <<>> \/ ~IsDigit(Head(s)) THEN acc
    ELSE ParseDigits(Tail(s), acc * 10 + DigitValue(Head(s)))
ParseInt(s) == IF s = <<>> \/ ~IsDigit(Head(s)) THEN NaN ELSE ParseDigits(s, 0)

(***************************************************************************)
(* utils/errors.ts: the gateway's errors.                                  *)
(***************************************************************************)
ServerError == -32000
Unauthorized == 401
NotFound == 404
RateLimitExceeded == 429
\* utils/error.ts: the code handleApiError gives.
ApiError == -32004
\* The SDK's code for an unknown tool.
MethodNotFound == -32601

\* new McpError(code, message, data) of utils/errors.ts
ErrorsMcpError(code, message, data) ==
    [cls |-> "utils/errors.McpError", code |-> code, message |-> message, data |-> data]

\* Errors.notFound(resource, id)
ErrorsNotFound(resource, id) ==
    ErrorsMcpError(NotFound, <<resource, " not found with ID: ">> \o id, Undefined)

\* Errors.unauthorized(reason)
ErrorsUnauthorized(reason) ==
    ErrorsMcpError(Unauthorized, <<"Unauthorized: ", reason>>, Undefined)

\* new Date(reset * 1000).toISOString(): the instant, in milliseconds, that the
\* ISO-8601 text denotes.
ResetAt(reset) == [resetAt |-> reset * 1000]

\* Errors.rateLimitExceeded(limit, reset).  `reset ? ... : undefined` takes
\* undefined, NaN and 0 alike; an undefined reset is passed as NaN here.
ErrorsRateLimitExceeded(limit, reset) ==
    ErrorsMcpError(RateLimitExceeded,
                   <<"Rate limit exceeded. Maximum ">> \o Digits(limit) \o <<" requests">>,
                   IF reset = NaN \/ reset = 0 THEN Undefined ELSE ResetAt(reset))

\* Errors.serverError(error)
ErrorsServerError(error) ==
    ErrorsMcpError(ServerError, <<"Server error: ">> \o error.message, [stack |-> TRUE])

(***************************************************************************)
(* The upstream API and axios.                                             *)
(***************************************************************************)
AppIds == {<<"a">>, <<"b">>}
UsagePeriods == {<<"last30days">>, <<"last7days">>}
SpendPeriods == {<<"last12months">>}
DaysAhead == {30}

\* The x-rate-limit-reset headers the upstream sends with a 429.
NoHeader == <<>>
ResetHeaders == {<<"1", "2">>}

\* What the upstream answers to one request: a status (0: no response, a
\* network error or timeout) and, with a 429, the reset header.
Responses ==
    {[status |-> st, reset |-> NoHeader] : st \in {200, 401, 404, 429, 500, 0}}
    \cup {[status |-> 429, reset |-> h] : h \in ResetHeaders}
NoResponse == [status |-> -1, reset |-> NoHeader]

\* The AxiosError axios rejects with for a response outside 2xx or for none.
AxiosError(request, resp) ==
    [cls |-> "AxiosError",
     message |-> IF resp.status = 0 THEN <<"Network Error">>
                 ELSE <<"Request failed with status code ">> \o Digits(resp.status),
     status |-> resp.status,
     url |-> request.url]

\* axios.isAxiosError(error)
IsAxiosError(error) == error.cls = "AxiosError"

\* Mutant of Interceptor: the rejection is logged and passed on as it is.
InterceptorPassesOn(request, resp) ==
    IF resp.status = 200
    THEN [ok |-> TRUE, value |-> [url |-> request.url, params |-> request.params]]
    ELSE [ok |-> FALSE, error |-> AxiosError(request, resp)]

\* client.get(url, {params}) through the response interceptor: the payload of
\* the response (the resource the request names), or what the interceptor throws.
Interceptor(request, resp) ==
    IF resp.status = 200
    THEN [ok |-> TRUE, value |-> [url |-> request.url, params |-> request.params]]
    ELSE LET error == AxiosError(request, resp) IN
         IF IsAxiosError(error) /\ error.status = 429
         THEN [ok |-> FALSE,
               error |-> ErrorsRateLimitExceeded(60,
                            IF resp.reset # NoHeader THEN ParseInt(resp.reset) ELSE NaN)]
         ELSE IF IsAxiosError(error) /\ error.status = 401
         THEN [ok |-> FALSE,
               error |-> ErrorsUnauthorized("Invalid API key or unauthorized access")]
         ELSE IF IsAxiosError(error) /\ error.status = 404
         THEN [ok |-> FALSE, error |-> ErrorsNotFound("Resource", error.url)]
         ELSE [ok |-> FALSE, error |-> error]

(***************************************************************************)
(* class ProductivAPI: the private methods.                                *)
(***************************************************************************)
Ops == {"getApplications", "getApplication", "getApplicationUsage", "getContracts",
        "getApplicationContracts", "getApplicationLicenses", "getUsers",
        "getShadowIT", "getSpendAnalytics", "getLicenseRecommendations",
        "getRenewalAlerts"}

\* The argument tuples callers pass to each operation.
ArgsOf(op) ==
    CASE op \in {"getApplication", "getApplicationContracts", "getApplicationLicenses"} ->
            {<<Str(id)>> : id \in AppIds}
      [] op = "getApplicationUsage" ->
            {<<Str(id)>> : id \in AppIds}
            \cup {<<Str(id), Str(p)>> : id \in AppIds, p \in UsagePeriods}
      [] op = "getSpendAnalytics" -> {<<>>} \cup {<<Str(p)>> : p \in SpendPeriods}
      [] op = "getRenewalAlerts" -> {<<>>} \cup {<<Num(d)>> : d \in DaysAhead}
      [] OTHER -> {<<>>}

\* The i-th parameter, or the default the method declares for it.
Param(args, i, default) == IF Len(args) >= i THEN args[i] ELSE default

\* The request a method sends: the url and the query parameters.
RequestOf(op, args) ==
    CASE op = "getApplications" ->
            [url |-> <<"/v1/applications">>, params |-> <<>>]
      [] op = "getApplication" ->
            [url |-> <<"/v1/applications/">> \o args[1].s, params |-> <<>>]
      [] op = "getApplicationUsage" ->
            [url |-> <<"/v1/applications/">> \o args[1].s \o <<"/usage">>,
             params |-> <<Param(args, 2, Str(<<"last30days">>))>>]
      [] op = "getContracts" ->
            [url |-> <<"/v1/contracts">>, params |-> <<>>]
      [] op = "getApplicationContracts" ->
            [url |-> <<"/v1/applications/">> \o args[1].s \o <<"/contracts">>, params |-> <<>>]
      [] op = "getApplicationLicenses" ->
            [url |-> <<"/v1/applications/">> \o args[1].s \o <<"/licenses">>, params |-> <<>>]
      [] op = "getUsers" ->
            [url |-> <<"/v1/users">>, params |-> <<>>]
      [] op = "getShadowIT" ->
            [url |-> <<"/v1/shadow-it">>, params |-> <<>>]
      [] op = "getSpendAnalytics" ->
            [url |-> <<"/v1/analytics/spend">>,
             params |-> <<Param(args, 1, Str(<<"last12months">>))>>]
      [] op = "getLicenseRecommendations" ->
            [url |-> <<"/v1/recommendations/licenses">>, params |-> <<>>]
      [] op = "getRenewalAlerts" ->
            [url |-> <<"/v1/alerts/renewals">>, params |-> <<Param(args, 1, Num(90))>>]

\* The methods whose catch block tests for a 404.
ChecksNotFound == {"getApplication", "getApplicationUsage", "getApplicationContracts",
                   "getApplicationLicenses"}

\* The catch block of a private method: what it throws for the error caught.
MethodCatch(op, args, error) ==
    IF op \in ChecksNotFound /\ IsAxiosError(error) /\ error.status = 404
    THEN ErrorsNotFound("Application", args[1].s)
    ELSE ErrorsServerError(error)

\* Mutant of Method: a request that fails is sent once more.
MethodRetries(op, args, resp) ==
    LET r == Interceptor(RequestOf(op, args), resp) IN
    IF r.ok THEN [ok |-> TRUE, value |-> r.value, requests |-> 1]
    ELSE [ok |-> FALSE, error |-> MethodCatch(op, args, r.error), requests |-> 2]

\* A private method (_getApplications, ...) called with `args`, the upstream
\* answering `resp` to its request: the outcome, and the number of requests
\* it has sent (one await this.client.get, no loop around it).
Method(op, args, resp) ==
    LET r == Interceptor(RequestOf(op, args), resp) IN
    IF r.ok THEN [ok |-> TRUE, value |-> r.value, requests |-> 1]
    ELSE [ok |-> FALSE, error |-> MethodCatch(op, args, r.error), requests |-> 1]

(***************************************************************************)
(* services/cache: DEFAULT_CACHE_TTL and cacheService.cacheify.            *)
(***************************************************************************)
\* DEFAULT_CACHE_TTL.<name> as a number: a name the object lacks is undefined,
\* which the arithmetic of Cache.set turns into NaN.
DefaultCacheTtl(name) ==
    CASE name = "APPLICATIONS" -> 60 * 5
      [] name = "APPLICATION_DETAILS" -> 60 * 5
      [] name = "APPLICATION_USAGE" -> 60 * 5
      [] name = "CONTRACTS" -> 60 * 15
      [] name = "LICENSES" -> 60 * 15
      [] name = "SHADOW_IT" -> 60 * 30
      [] name = "SPEND_ANALYTICS" -> 60 * 60
      [] name = "RECOMMENDATIONS" -> 60 * 60
      [] name = "RENEWAL_ALERTS" -> 60 * 30
      [] OTHER -> NaN

\* Mutant of CachePrefix: getApplicationUsage registered under getApplication's prefix.
CachePrefixShared(op) ==
    CASE op = "getApplications" -> <<"application", "s">>
      [] op = "getApplication" -> <<"application">>
      [] op = "getApplicationUsage" -> <<"application">>
      [] op = "getContracts" -> <<"contracts">>
      [] op = "getApplicationContracts" -> <<"application", "Contracts">>
      [] op = "getApplicationLicenses" -> <<"application", "Licenses">>
      [] op = "getUsers" -> <<"users">>
      [] op = "getShadowIT" -> <<"shadowIT">>
      [] op = "getSpendAnalytics" -> <<"spendAnalytics">>
      [] op = "getLicenseRecommendations" -> <<"licenseRecommendations">>
      [] op = "getRenewalAlerts" -> <<"renewalAlerts">>

\* The key prefix each operation is registered with in the constructor, as the
\* symbols it is made of.
CachePrefix(op) ==
    CASE op = "getApplications" -> <<"application", "s">>
      [] op = "getApplication" -> <<"application">>
      [] op = "getApplicationUsage" -> <<"application", "Usage">>
      [] op = "getContracts" -> <<"contracts">>
      [] op = "getApplicationContracts" -> <<"application", "Contracts">>
      [] op = "getApplicationLicenses" -> <<"application", "Licenses">>
      [] op = "getUsers" -> <<"users">>
      [] op = "getShadowIT" -> <<"shadowIT">>
      [] op = "getSpendAnalytics" -> <<"spendAnalytics">>
      [] op = "getLicenseRecommendations" -> <<"licenseRecommendations">>
      [] op = "getRenewalAlerts" -> <<"renewalAlerts">>

\* The TTL each operation is registered with in the constructor.
CacheTtl(op) ==
    CASE op = "getApplications" -> DefaultCacheTtl("APPLICATIONS")
      [] op = "getApplication" -> DefaultCacheTtl("APPLICATION_DETAILS")
      [] op = "getApplicationUsage" -> DefaultCacheTtl("APPLICATION_USAGE")
      [] op = "getContracts" -> DefaultCacheTtl("CONTRACTS")
      [] op = "getApplicationContracts" -> DefaultCacheTtl("CONTRACTS")
      [] op = "getApplicationLicenses" -> DefaultCacheTtl("LICENSES")
      [] op = "getUsers" -> DefaultCacheTtl("USERS")
      [] op = "getShadowIT" -> DefaultCacheTtl("SHADOW_IT")
      [] op = "getSpendAnalytics" -> DefaultCacheTtl("SPEND_ANALYTICS")
      [] op = "getLicenseRecommendations" -> DefaultCacheTtl("LICENSE_RECOMMENDATIONS")
      [] op = "getRenewalAlerts" -> DefaultCacheTtl("RENEWAL_ALERTS")

\* JSON.stringify of an argument tuple of primitives.
JsonValue(a) == IF a.t = "string" THEN <<"\"">> \o a.s \o <<"\"">> ELSE Digits(a.n)
RECURSIVE JsonItems(_)
JsonItems(args) ==
    IF args = <<>> THEN <<>>
    ELSE IF Len(args) = 1 THEN JsonValue(args[1])
    ELSE JsonValue(args[1]) \o <<",">> \o JsonItems(Tail(args))
JsonArray(args) == <<"[">> \o JsonItems(args) \o <<"]">>

\* The cache key of a call: the operation's name plus the serialized arguments.
CacheKey(prefix, args) == prefix \o JsonArray(args)

\* The function cacheify(fn, prefix, ttl) returns, called with `args` at time t
\* on cache c, the upstream answering `resp` if a request is sent: cache-aside.
\* A cached value is returned without a request; otherwise the method runs,
\* and its result is stored only when it succeeds.
Cacheified(c, op, args, t, resp) ==
    LET key == CacheKey(CachePrefix(op), args)
        got == CacheGet(c, key, t)
    IN IF got.value # Undefined
       THEN [cache |-> got.cache, key |-> key, sent |-> 0,
             outcome |-> [ok |-> TRUE, value |-> got.value]]
       ELSE LET r == Method(op, args, resp) IN
            [cache |-> IF r.ok THEN CacheSet(got.cache, key, r.value, CacheTtl(op), t)
                       ELSE got.cache,
             key |-> key, sent |-> r.requests,
             outcome |-> IF r.ok THEN [ok |-> TRUE, value |-> r.value]
                         ELSE [ok |-> FALSE, error |-> r.error]]

(***************************************************************************)
(* The tool layer: the CallTool handler of server-new.ts.                  *)
(***************************************************************************)
\* The tools that pass one gateway result on, and a name the switch lacks.
PassThroughTools == {"list_applications", "get_contracts", "get_shadow_it",
                     "get_spend_analytics", "get_license_recommendations",
                     "get_renewal_alerts"}
ToolNames == PassThroughTools \cup {"unknown_tool"}

\* The arguments a host sends; an absent argument is the empty tuple.
ToolArgsOf(name) ==
    CASE name = "get_spend_analytics" -> {<<>>} \cup {<<Str(p)>> : p \in SpendPeriods}
      [] name = "get_renewal_alerts" -> {<<>>} \cup {<<Num(d)>> : d \in DaysAhead}
      [] OTHER -> {<<>>}

\* The gateway operation a pass-through tool calls.
ToolOp(name) ==
    CASE name = "list_applications" -> "getApplications"
      [] name = "get_contracts" -> "getContracts"
      [] name = "get_shadow_it" -> "getShadowIT"
      [] name = "get_spend_analytics" -> "getSpendAnalytics"
      [] name = "get_license_recommendations" -> "getLicenseRecommendations"
      [] name = "get_renewal_alerts" -> "getRenewalAlerts"

\* The arguments it calls it with: (args.period as string) || 'last12months',
\* (args.daysAhead as number) || 90.
ToolOpArgs(name, args) ==
    CASE name = "get_spend_analytics" -> <<Param(args, 1, Str(<<"last12months">>))>>
      [] name = "get_renewal_alerts" ->
            <<IF Len(args) >= 1 /\ args[1].n # 0 THEN args[1] ELSE Num(90)>>
      [] OTHER -> <<>>

\* The content a tool returns: one text item, the JSON text of the value.
ToolContent(value) == <<[type |-> "text", text |-> [json |-> value]]>>

\* new McpError(code, message) of the SDK
SdkMcpError(code, message) ==
    [cls |-> "sdk.McpError", code |-> code, message |-> message, data |-> Undefined]

\* Mutant of HandleApiError: any error that carries a code is returned as it is.
HandleApiErrorKeepsCoded(error, defaultMessage) ==
    IF ~IsAxiosError(error) THEN error
    ELSE [cls |-> "utils/error.McpError", code |-> ApiError,
          message |-> error.message, data |-> [response |-> error.status]]

\* handleApiError(error, defaultMessage) of utils/error.ts.  Its McpError is
\* the class of utils/error.ts; every error reaching it is an Error.
HandleApiError(error, defaultMessage) ==
    IF error.cls = "utils/error.McpError" THEN error
    ELSE [cls |-> "utils/error.McpError", code |-> ApiError,
          message |-> error.message,
          data |-> IF IsAxiosError(error) THEN [response |-> error.status] ELSE Undefined]

\* The catch block of the CallTool handler; its McpError is the SDK's.
ToolCatch(name, error) ==
    IF error.cls = "sdk.McpError" THEN error
    ELSE HandleApiError(error, <<"Failed to execute tool: ", name>>)

(***************************************************************************)
(* Spec: the gateway and the tool layer.                                   *)
(***************************************************************************)
\* The instants Date.now() takes: the start, the shortest TTL later to the
\* millisecond, and one millisecond on.
GatewayInstants ==
    {0, DefaultCacheTtl("APPLICATIONS") * 1000, DefaultCacheTtl("APPLICATIONS") * 1000 + 1}

\* Whether a gateway call has just completed, and whether it failed.
Called == call.op \in Ops
Failed == Called /\ ~call.outcome.ok

\* No invocation is in progress: the last one has been answered and taken.
Settled == call = NoCall /\ tool = NoTool

\* clearCache() has just run.
JustCleared == call.op = "clearCache" /\ tool = NoTool

\* The record kept of a gateway call: `before` is the cache entry under the
\* call's key when it started, `resp` the upstream's answer when a request
\* was sent.
CallRecord(op, args, r, resp) ==
    [op |-> op, args |-> args, key |-> r.key, sent |-> r.sent,
     before |-> EntryOf(cache, r.key),
     resp |-> IF r.sent > 0 THEN resp ELSE NoResponse,
     outcome |-> r.outcome]

\* Whether a call finds its value in the cache, and the answers the upstream
\* may give to it: none is asked for when it does, and the upstream answers
\* 200 at most MaxFetched times in a behaviour.
Hits(op, args) == CacheGet(cache, CacheKey(CachePrefix(op), args), now).value # Undefined
Answers(op, args) ==
    IF Hits(op, args) THEN {NoResponse}
    ELSE {resp \in Responses : resp.status = 200 => fetched < MaxFetched}

\* productivAPI.<op>(...args), called by any client of the gateway: a new
\* call, or the same call again after it failed.
GatewayCall(op, args) ==
    /\ Settled \/ JustCleared
         \/ (Failed /\ tool = NoTool /\ call.op = op /\ call.args = args)
    /\ \E resp \in Answers(op, args) :
       \E r \in {Cacheified(cache, op, args, now, resp)} :
        /\ cache' = r.cache
        /\ fetched' = fetched + (IF r.sent > 0 /\ r.outcome.ok THEN 1 ELSE 0)
        /\ call' = CallRecord(op, args, r, resp)
        /\ tool' = NoTool
        /\ UNCHANGED <<now, ret, hist, upstream, heap>>

\* A CallTool request for a pass-through tool: a new request, or the same
\* request again after it failed.
ToolCall(name, args) ==
    /\ Settled \/ JustCleared
         \/ (Failed /\ tool # NoTool /\ tool.name = name /\ tool.args = args)
    /\ \E op \in {ToolOp(name)}, opArgs \in {ToolOpArgs(name, args)} :
       \E resp \in Answers(op, opArgs) :
       \E r \in {Cacheified(cache, op, opArgs, now, resp)} :
        /\ cache' = r.cache
        /\ fetched' = fetched + (IF r.sent > 0 /\ r.outcome.ok THEN 1 ELSE 0)
        /\ call' = CallRecord(op, opArgs, r, resp)
        /\ tool' = [name |-> name, args |-> args,
                    outcome |-> IF r.outcome.ok
                                THEN [ok |-> TRUE, content |-> ToolContent(r.outcome.value)]
                                ELSE [ok |-> FALSE, error |-> ToolCatch(name, r.outcome.error)]]
        /\ UNCHANGED <<now, ret, hist, upstream, heap>>

\* A CallTool request for a name the switch does not know: the default case.
UnknownToolCall(name) ==
    /\ Settled
    /\ tool' = [name |-> name, args |-> <<>>,
                outcome |-> [ok |-> FALSE,
                             error |-> ToolCatch(name,
                                 SdkMcpError(MethodNotFound, <<"Tool not found: ", name>>))]]
    /\ UNCHANGED <<cache, now, ret, hist, fetched, call, upstream, heap>>

\* productivAPI.clearCache(): cacheService.clear().  The record keeps whether
\* the cache held entries past their expiry time and entries still ahead of it.
ClearCache ==
    /\ Settled
    /\ cache' = CacheClear(cache)
    /\ call' = [op |-> "clearCache",
                before |-> [expired |-> \E k \in DOMAIN cache : Expired(cache[k], now),
                            unexpired |-> \E k \in DOMAIN cache : ~Expired(cache[k], now)]]
    /\ UNCHANGED <<now, ret, hist, fetched, tool, upstream, heap>>

\* The caller has taken the result of the last invocation.
Settle ==
    /\ ~Settled
    /\ call' = NoCall
    /\ tool' = NoTool
    /\ UNCHANGED <<cache, now, ret, hist, fetched, upstream, heap>>

\* Time passes between two invocations.
Tick(t) ==
    /\ Settled
    /\ t > now
    /\ now' = t
    /\ UNCHANGED <<cache, ret, hist, fetched, call, tool, upstream, heap>>

Next ==
    \/ \E op \in Ops : \E args \in ArgsOf(op) : GatewayCall(op, args)
    \/ \E name \in PassThroughTools : \E args \in ToolArgsOf(name) : ToolCall(name, args)
    \/ \E name \in ToolNames \ PassThroughTools : UnknownToolCall(name)
    \/ ClearCache
    \/ Settle
    \/ \E t \in GatewayInstants : Tick(t)

Spec == Init /\ [][Next]_vars

(***************************************************************************)
(* Text: case folding and the ID pattern of the tools.                     *)
(***************************************************************************)
UpperChars == <<"A", "B", "C", "D", "E", "F", "G", "H", "I", "J", "K", "L", "M",
                "N", "O", "P", "Q", "R", "S", "T", "U", "V", "W", "X", "Y", "Z">>
LowerChars == <<"a", "b", "c", "d", "e", "f", "g", "h", "i", "j", "k", "l", "m",
                "n", "o", "p", "q", "r", "s", "t", "u", "v", "w", "x", "y", "z">>

\* String.prototype.toLowerCase(), character by character.
LowerChar(c) ==
    IF \E i \in DOMAIN UpperChars : UpperChars[i] = c
    THEN LowerChars[CHOOSE i \in DOMAIN UpperChars : UpperChars[i] = c]
    ELSE c
ToLowerCase(s) == [i \in 1..Len(s) |-> LowerChar(s[i])]

\* /^[a-f0-9-]+$/i.test(s)
IdPattern(s) ==
    /\ s # <<>>
    /\ \A i \in 1..Len(s) :
          LowerChar(s[i]) \in {"a", "b", "c", "d", "e", "f", "-"} \/ IsDigit(s[i])

(***************************************************************************)
(* The three servers of the repository and the upstream they talk to.      *)
(***************************************************************************)
\* server.ts (FastMCP, the package's main), and the two servers of
\* server-new.ts: the one built on Server with a CallTool handler and the
\* one built on McpServer with server.tool.
FastMcp == "server.ts"
CallToolServer == "server-new.ts Server"
McpServer == "server-new.ts McpServer"
Servers == {FastMcp, CallToolServer, McpServer}

\* An upstream: the applications it lists, in list order, the usage and the
\* contracts it has of each, and the requests it fails to serve.  `down`
\* holds <<op, id>> pairs, AnyId standing for every argument.
AnyId == <<"*">>
IsDown(world, op, args) ==
    \/ <<op, AnyId>> \in world.down
    \/ args # <<>> /\ args[1].t = "string" /\ <<op, args[1].s>> \in world.down

\* The position of the application with this id in the list, 0 if none.
IndexOfId(apps, id) ==
    IF \E i \in 1..Len(apps) : apps[i].id = id
    THEN CHOOSE i \in 1..Len(apps) : apps[i].id = id
    ELSE 0

\* What the upstream answers to the request of (op, args): its failure
\* status (500, 401, 429) when it is down for it, 404 for an application it
\* does not have, 200 otherwise.
UpstreamResponse(world, op, args) ==
    [status |-> IF IsDown(world, op, args) THEN world.failure
                ELSE IF op \in ChecksNotFound /\ IndexOfId(world.apps, args[1].s) = 0
                THEN 404
                ELSE 200,
     reset |-> NoHeader]

\* response.data.<field> of a 200 response: the resource the url names.
Resource(world, value) ==
    LET url == value.url
        id == IF Len(url) >= 2 /\ url[Len(url)] \in {"/usage", "/contracts", "/licenses"}
              THEN SubSeq(url, 2, Len(url) - 1)
              ELSE SubSeq(url, 2, Len(url))
    IN IF url = <<"/v1/applications">> THEN world.apps
       ELSE IF url[1] # "/v1/applications/" THEN value
       ELSE IF url[Len(url)] = "/usage" THEN world.usage[id]
       ELSE IF url[Len(url)] = "/contracts" THEN world.contracts[id]
       ELSE IF url[Len(url)] = "/licenses" THEN value
       ELSE world.apps[IndexOfId(world.apps, id)]

\* productivAPI.<op>(...args) at time t on cache c over the upstream `world`:
\* the cache after the call, whether a request was sent, and the outcome.
Gateway(c, world, op, args, t) ==
    CHOOSE g \in {[cache |-> r.cache,
                   sent |-> r.sent,
                   outcome |-> IF r.outcome.ok
                               THEN [ok |-> TRUE, value |-> Resource(world, r.outcome.value)]
                               ELSE r.outcome] :
                  r \in {Cacheified(c, op, args, t, UpstreamResponse(world, op, args))}} : TRUE

\* The progress of a tool invocation: the cache, and the gateway calls made
\* so far with the success of each.
Begin(c) == [cache |-> c, calls |-> <<>>]

\* One more gateway call: the progress after it, with the call's outcome.
Await(st, world, op, args, t) ==
    CHOOSE a \in {[cache |-> g.cache,
                   calls |-> Append(st.calls, [op |-> op, args |-> args, ok |-> g.outcome.ok]),
                   outcome |-> g.outcome] :
                  g \in {Gateway(st.cache, world, op, args, t)}} : TRUE

(***************************************************************************)
(* Errors of the tool layer in the three servers.                          *)
(***************************************************************************)
\* ErrorCode.InvalidParams of the SDK, ErrorCode.InvalidInputError of
\* utils/error.ts, and the code of a plain Error, which has none.
InvalidParams == -32602
InvalidInputError == -32003
NoCode == 0

\* new McpError(code, message) of utils/error.ts
UtilsErrorMcpError(code, message) ==
    [cls |-> "utils/error.McpError", code |-> code, message |-> message, data |-> Undefined]

\* new Error(message)
JsError(message) ==
    [cls |-> "Error", code |-> NoCode, message |-> message, data |-> Undefined]

\* The error each server throws when no application has the name.
NoSuchApplication(server, message) ==
    CASE server = CallToolServer -> SdkMcpError(InvalidParams, message)
      [] server = McpServer -> UtilsErrorMcpError(InvalidInputError, message)
      [] server = FastMcp -> JsError(message)

\* What the catch block around a tool of server.ts puts before the message.
FailedTo(name) ==
    CASE name = "get_application_details" -> "Failed to get application details: "
      [] name = "get_application_usage" -> "Failed to get application usage: "
      [] name = "get_application_contracts" -> "Failed to get application contracts: "
      [] name = "get_application_licenses" -> "Failed to get application licenses: "
      [] name = "find_underutilized_applications" ->
            "Failed to find underutilized applications: "

\* The outer catch block of a tool: what the tool's caller is thrown.
ServerCatch(server, name, error) ==
    CASE server = CallToolServer -> ToolCatch(name, error)
      [] server = McpServer -> HandleApiError(error, <<"Failed: ", name>>)
      [] server = FastMcp -> JsError(<<FailedTo(name)>> \o error.message)

\* What a tool returns for a value: server.ts returns the value itself, the
\* servers of server-new.ts wrap its JSON text.
ToolReturn(server, value) == IF server = FastMcp THEN value ELSE ToolContent(value)

(***************************************************************************)
(* The tools that take idOrName.                                           *)
(***************************************************************************)
IdOrNameTools == {"get_application_usage", "get_application_contracts",
                  "get_application_licenses"}

\* Mutant of FindByName: the last application of the name, not the first.
FindByNameLast(apps, idOrName) ==
    LET hits == {i \in 1..Len(apps) : ToLowerCase(apps[i].name) = ToLowerCase(idOrName)}
    IN IF hits = {} THEN 0 ELSE CHOOSE i \in hits : \A j \in hits : j <= i

\* applications.find(a => a.name.toLowerCase() === idOrName.toLowerCase()):
\* the position of the first such application, 0 for undefined.
FindByName(apps, idOrName) ==
    LET hits == {i \in 1..Len(apps) : ToLowerCase(apps[i].name) = ToLowerCase(idOrName)}
    IN IF hits = {} THEN 0 ELSE CHOOSE i \in hits : \A j \in hits : i <= j

\* How a tool invocation ends: with a value returned or an error thrown
\* inside the outer try block.
Returned(st, value) == [cache |-> st.cache, calls |-> st.calls, ok |-> TRUE, value |-> value]
Thrown(st, error) == [cache |-> st.cache, calls |-> st.calls, ok |-> FALSE, error |-> error]
Settles(a) == IF a.outcome.ok THEN Returned(a, a.outcome.value) ELSE Thrown(a, a.outcome.error)

\* The check `if (!idOrName)` that only the CallTool handler makes.
MissingIdOrName(server, idOrName) == server = CallToolServer /\ idOrName = <<>>
MissingParameter == SdkMcpError(InvalidParams, <<"Missing required parameter: idOrName">>)

\* Mutant of GetApplicationDetails: the list is fetched and searched first.
GetApplicationDetailsListFirst(server, c, world, idOrName, t) ==
    LET a1 == Await(Begin(c), world, "getApplications", <<>>, t) IN
    IF ~a1.outcome.ok THEN Thrown(a1, a1.outcome.error)
    ELSE LET i == FindByName(a1.outcome.value, idOrName) IN
         Settles(Await(a1, world, "getApplication",
                       <<Str(IF i = 0 THEN idOrName ELSE a1.outcome.value[i].id)>>, t))

\* get_application_details: the application is first fetched by id; when
\* that fails, whatever the reason, it is looked for by name in the list and
\* fetched by the id found.
GetApplicationDetails(server, c, world, idOrName, t) ==
    IF MissingIdOrName(server, idOrName) THEN Thrown(Begin(c), MissingParameter)
    ELSE
    LET a1 == Await(Begin(c), world, "getApplication", <<Str(idOrName)>>, t) IN
    IF a1.outcome.ok THEN Settles(a1)
    ELSE LET a2 == Await(a1, world, "getApplications", <<>>, t) IN
         IF ~a2.outcome.ok THEN Thrown(a2, a2.outcome.error)
         ELSE LET i == FindByName(a2.outcome.value, idOrName) IN
              IF i = 0
              THEN Thrown(a2, NoSuchApplication(server,
                             <<"Application not found with ID or name: ">> \o idOrName))
              ELSE Settles(Await(a2, world, "getApplication",
                                 <<Str(a2.outcome.value[i].id)>>, t))

\* The gateway operation behind each of the other tools and its arguments;
\* the period is not given and each server passes 'last30days'.
IdOrNameOp(name) ==
    CASE name = "get_application_usage" -> "getApplicationUsage"
      [] name = "get_application_contracts" -> "getApplicationContracts"
      [] name = "get_application_licenses" -> "getApplicationLicenses"
IdOrNameArgs(name, appId) ==
    IF name = "get_application_usage" THEN <<Str(appId), Str(<<"last30days">>)>>
    ELSE <<Str(appId)>>

\* get_application_usage, get_application_contracts, get_application_licenses:
\* an input of the ID pattern is used as the id; any other is looked for by
\* name in the list.
GetByIdOrName(server, c, world, name, idOrName, t) ==
    IF MissingIdOrName(server, idOrName) THEN Thrown(Begin(c), MissingParameter)
    ELSE IF ~IdPattern(idOrName)
    THEN LET a1 == Await(Begin(c), world, "getApplications", <<>>, t) IN
         IF ~a1.outcome.ok THEN Thrown(a1, a1.outcome.error)
         ELSE LET i == FindByName(a1.outcome.value, idOrName) IN
              IF i = 0
              THEN Thrown(a1, NoSuchApplication(server,
                             <<"Application not found with name: ">> \o idOrName))
              ELSE Settles(Await(a1, world, IdOrNameOp(name),
                                 IdOrNameArgs(name, a1.outcome.value[i].id), t))
    ELSE Settles(Await(Begin(c), world, IdOrNameOp(name), IdOrNameArgs(name, idOrName), t))

(***************************************************************************)
(* ResolverSpec: the tools that take idOrName, invoked on one of the       *)
(* servers over an upstream that stays as it is.                           *)
(***************************************************************************)
\* The names applications have: two that differ in case only, and one made
\* of hex digits alone.
AppNames == {<<"Z", "o", "o", "m">>, <<"z", "o", "o", "m">>, <<"C", "a", "f", "e">>}

\* What a host passes as idOrName: ids, names in another case, the start of
\* a name, and the empty string.
IdOrNames == AppIds \cup {<<"Z", "O", "O", "M">>, <<"Z", "o", "o">>,
                          <<"C", "a", "f", "e">>, <<>>}

\* The lists of at most MaxApps applications with distinct ids.
Portfolios(ids, names) ==
    {apps \in UNION {[1..n -> [id : ids, name : names]] : n \in 0..MaxApps} :
        \A i, j \in 1..Len(apps) : apps[i].id = apps[j].id => i = j}

\* The usage and the contracts of an application nothing more is known of.
SomeUsage == [activePercent |-> 50, activeUsers |-> 1]
IdsOf(apps) == {apps[i].id : i \in 1..Len(apps)}

\* The upstream serves everything, or fails for the list, for every
\* application, or for the lookup of one name as an id.
Failures == {500, 401, 429}
Outages == {{<<"getApplications", AnyId>>}, {<<"getApplication", AnyId>>},
            {<<"getApplication", <<"Z", "O", "O", "M">>>>}}
ResolverUpstream(server, apps, down, failure) ==
    [server |-> server, apps |-> apps, down |-> down, failure |-> failure,
     usage |-> [id \in IdsOf(apps) |-> SomeUsage],
     contracts |-> [id \in IdsOf(apps) |-> <<>>]]
ResolverUpstreams ==
    {ResolverUpstream(server, apps, {}, 500) :
        server \in Servers, apps \in Portfolios(AppIds, AppNames)}
    \cup {ResolverUpstream(server, apps, down, failure) :
        server \in Servers, apps \in Portfolios(AppIds, AppNames),
        down \in Outages, failure \in Failures}

ResolverInit ==
    /\ cache = [k \in {} |-> Undefined]
    /\ now = 0
    /\ ret = NoOp
    /\ hist = [k \in ClientKeys |-> Fresh]
    /\ fetched = 0
    /\ call = NoCall
    /\ tool = NoTool
    /\ upstream \in ResolverUpstreams
    /\ heap = NoHeap

\* Another invocation may start.
Invocations == IF tool = NoTool THEN 0 ELSE tool.n
MayInvoke == Invocations < MaxInvocations

\* The record kept of an invocation: the gateway calls it made, what was
\* thrown inside the tool (`raised`), and what its caller got.
ToolRecord(name, input, r) ==
    [n |-> Invocations + 1, name |-> name, input |-> input, calls |-> r.calls,
     raised |-> IF r.ok THEN Undefined ELSE r.error,
     outcome |-> IF r.ok THEN [ok |-> TRUE, content |-> ToolReturn(upstream.server, r.value)]
                 ELSE [ok |-> FALSE, error |-> ServerCatch(upstream.server, name, r.error)]]

\* A host invokes get_application_details.
Details(idOrName) ==
    /\ MayInvoke
    /\ idOrName = <<>> => upstream.server = CallToolServer
    /\ \E r \in {GetApplicationDetails(upstream.server, cache, upstream, idOrName, now)} :
        /\ cache' = r.cache
        /\ tool' = ToolRecord("get_application_details", idOrName, r)
    /\ UNCHANGED <<now, ret, hist, fetched, call, upstream, heap>>

\* A host invokes one of the usage, contracts and licenses tools.
ByIdOrName(name, idOrName) ==
    /\ MayInvoke
    /\ idOrName = <<>> => upstream.server = CallToolServer
    /\ \E r \in {GetByIdOrName(upstream.server, cache, upstream, name, idOrName, now)} :
        /\ cache' = r.cache
        /\ tool' = ToolRecord(name, idOrName, r)
    /\ UNCHANGED <<now, ret, hist, fetched, call, upstream, heap>>

ResolverNext ==
    \/ \E idOrName \in IdOrNames : Details(idOrName)
    \/ \E name \in IdOrNameTools, idOrName \in IdOrNames : ByIdOrName(name, idOrName)

ResolverSpec == ResolverInit /\ [][ResolverNext]_vars

(***************************************************************************)
(* Claims about the Cache class, checked under CacheSpec.                  *)
(***************************************************************************)
\* A get has just run on a key that held an entry.
GotEntry == ret.op = "get" /\ ret.before # NoEntry

\* C1 as stated: Cache.get never returns an entry once now >= expiresAt,
\* including now == expiresAt exactly: every such get returns absent.
C1_AbsentFromExpiryOn ==
    (GotEntry /\ now >= ret.before.expires) => ret.value = Undefined

\* C1 as amended: Cache.get never returns an entry once now > expiresAt; at
\* now == expiresAt exactly the entry is still returned.
C1_AbsentAfterExpiry ==
    GotEntry =>
        /\ now > ret.before.expires => ret.value = Undefined
        /\ now = ret.before.expires => ret.value = ret.before.data

C1_Witness ==
    GotEntry /\ now > ret.before.expires /\ ret.value = Undefined

\* C2: expiry is lazy and idempotent.  The first get on a key after its expiry
\* time has passed returns absent and removes the entry from the map, and every
\* later get on the key returns absent until a new set on it, wherever the
\* clock has moved in between.
C2_LazyIdempotentExpiry ==
    /\ (GotEntry /\ now > ret.before.expires) =>
           ret.value = Undefined /\ ret.key \notin DOMAIN cache
    /\ \A k \in ClientKeys : hist[k].seenExpired => k \notin DOMAIN cache
    /\ (ret.op = "get" /\ hist[ret.key].seenExpired) => ret.value = Undefined

\* A later get on a key whose expiry was already seen, with the clock set back
\* to 0, before the expiry time of any entry there has been.
C2_Witness ==
    /\ ret.op = "get" /\ ret.before = NoEntry
    /\ hist[ret.key].seenExpired
    /\ now = 0

\* C3: round trip.  set(key, value, ttl) followed by get(key) before the TTL
\* has elapsed returns exactly the value set, whatever was done to other keys
\* in between.
C3_RoundTrip ==
    (ret.op = "get" /\ hist[ret.key].pending) => ret.value = hist[ret.key].data

\* Such a get, after another key's entry has expired and been dropped.
C3_Witness ==
    /\ ret.op = "get" /\ hist[ret.key].pending
    /\ ret.value \in ClientValues
    /\ \E k \in ClientKeys \ {ret.key} : hist[k].seenExpired

(***************************************************************************)
(* Claims about the gateway, checked under Spec.                           *)
(***************************************************************************)
\* The resource a request for (op, args) names: what a correct answer holds.
ResourceOf(op, args) ==
    [url |-> RequestOf(op, args).url, params |-> RequestOf(op, args).params]

\* The call found under its key an entry whose expiry time was still ahead
\* (an entry stored without a TTL has none).
FoundUnexpired ==
    /\ Called
    /\ call.before # NoEntry
    /\ (call.before.expires = NaN \/ now < call.before.expires)

\* C4: cache-aside hit.  For every gateway operation and argument tuple, a call
\* that finds the unexpired entry of an earlier successful call with the same
\* arguments returns the cached value and issues no upstream request; two
\* getApplications() calls within the TTL window issue one upstream request.
C4_CacheAsideHit ==
    FoundUnexpired =>
        /\ call.sent = 0
        /\ call.resp = NoResponse
        /\ call.outcome = [ok |-> TRUE, value |-> call.before.data]
        /\ EntryOf(cache, call.key) = call.before

\* The second getApplications() within the TTL window: answered from the
\* cache, the first call's request being the only one that was answered.
C4_Witness ==
    /\ FoundUnexpired
    /\ call.op = "getApplications"
    /\ call.sent = 0
    /\ call.outcome.ok
    /\ fetched = 1

\* C5: on upstream failure nothing is cached.  After a gateway call fails the
\* cache holds no entry for the call's key, and the next call with the same
\* arguments issues a new upstream request instead of returning a cached
\* error or a stale value.
C5_FailureNotCached ==
    /\ [](Failed => call.sent = 1 /\ call.key \notin DOMAIN cache)
    /\ [][(Failed /\ Called' /\ call'.op = call.op /\ call'.args = call.args)
            => (call'.sent = 1 /\ call'.resp \in Responses)]_vars

\* A call that fails where a stale entry was: the entry is gone, and no error
\* has taken its place.
C5_Witness ==
    /\ Failed
    /\ call.before # NoEntry
    /\ call.sent = 1
    /\ call.key \notin DOMAIN cache

\* Every (operation, argument tuple) pair the gateway is called with, by its
\* clients or by the tools, and the cache key of each.
CallArgsOf(op) ==
    ArgsOf(op) \cup UNION {{ToolOpArgs(name, args) : args \in ToolArgsOf(name)} :
                              name \in {n \in PassThroughTools : ToolOp(n) = op}}
Pairs == UNION {{<<op, args>> : args \in CallArgsOf(op)} : op \in Ops}
KeyOf == [p \in Pairs |-> CacheKey(CachePrefix(p[1]), p[2])]
KeysDistinct == \A p, q \in Pairs : KeyOf[p] = KeyOf[q] => p = q

Names(message, text) ==
    \E i \in 1..(Len(message) - Len(text) + 1) :
        SubSeq(message, i, i + Len(text) - 1) = text

\* C7 as stated: getApplication(id) fails with a NotFound error, naming the
\* application id, whenever the upstream responds 404.
C7_NotFoundOn404 ==
    (Called /\ call.op = "getApplication" /\ call.resp.status = 404) =>
        /\ ~call.outcome.ok
        /\ call.outcome.error.code = NotFound
        /\ Names(call.outcome.error.message, call.args[1].s)

\* C8 as stated: a 429 response carrying a rate-limit-reset header makes every
\* gateway operation fail with a RateLimitExceeded error whose data carries
\* the reset timestamp decoded from the header.
C8_RateLimitCarriesReset ==
    (Called /\ call.resp.status = 429 /\ call.resp.reset # NoHeader) =>
        /\ ~call.outcome.ok
        /\ call.outcome.error.code = RateLimitExceeded
        /\ call.outcome.error.data = ResetAt(ParseInt(call.resp.reset))

\* C9 as stated: a 401 response makes every gateway operation fail with an
\* Unauthorized error, not with a generic server error.
C9_UnauthorizedOn401 ==
    (Called /\ call.resp.status = 401) =>
        /\ ~call.outcome.ok
        /\ call.outcome.error.code = Unauthorized

(***************************************************************************)
(* Claims about the tool layer, checked under Spec.                        *)
(***************************************************************************)
\* C10 as stated: an error the gateway raises during a tool invocation reaches
\* the tool's caller unchanged, with the same code and message; the tool
\* layer does not re-wrap it under a different code.
C10_GatewayErrorUnchanged ==
    (tool # NoTool /\ Failed) =>
        /\ ~tool.outcome.ok
        /\ tool.outcome.error.code = call.outcome.error.code
        /\ tool.outcome.error.message = call.outcome.error.message

(***************************************************************************)
(* Numbers of the analysis: exact fractions num/den with den > 0, in       *)
(* lowest terms.  null is the value of a cost or a saving that is unknown. *)
(***************************************************************************)
Null == [null |-> TRUE]

RECURSIVE Gcd(_, _)
Gcd(a, b) == IF b = 0 THEN a ELSE Gcd(b, a % b)
Abs(n) == IF n < 0 THEN -n ELSE n

Frac(n, d) ==
    LET g == Gcd(Abs(n), Abs(d))
        sign == IF d < 0 THEN -1 ELSE 1
    IN [num |-> sign * (n \div g), den |-> sign * (d \div g)]
Whole(n) == [num |-> n, den |-> 1]
IsNumber(x) == DOMAIN x = {"num", "den"}

NumMul(a, b) == Frac(a.num * b.num, a.den * b.den)
NumDiv(a, b) == Frac(a.num * b.den, a.den * b.num)
NumSub(a, b) == Frac(a.num * b.den - b.num * a.den, a.den * b.den)
NumLt(a, b) == a.num * b.den < b.num * a.den

\* Math.round(x): the integer nearest to x, a half rounding up.
MathRound(x) == Whole((2 * x.num + x.den) \div (2 * x.den))

\* The value `x || fallback` takes for a number or undefined x, and whether
\* a number or null is truthy.
OrElse(x, fallback) == IF ~IsNumber(x) \/ x.num = 0 THEN fallback ELSE x
Truthy(x) == IsNumber(x) /\ x.num # 0

(***************************************************************************)
(* find_underutilized_applications.                                        *)
(***************************************************************************)
\* Mutant of AnnualCost: a quarter taken for three payments a year.
AnnualCostQuarterlyTimes3(contracts) ==
    LET active == {i \in 1..Len(contracts) : contracts[i].status = "active"} IN
    IF active = {} THEN Null
    ELSE LET c == contracts[CHOOSE i \in active : \A j \in active : i <= j] IN
         CASE c.paymentFrequency = "monthly" -> NumMul(c.amount, Whole(12))
           [] c.paymentFrequency = "quarterly" -> NumMul(c.amount, Whole(3))
           [] c.paymentFrequency = "annually" -> c.amount
           [] c.paymentFrequency = "one-time" -> c.amount
           [] OTHER -> Null

\* let annualCost = null; ... contracts.find(c => c.status === 'active') and
\* the switch on its paymentFrequency.
AnnualCost(contracts) ==
    LET active == {i \in 1..Len(contracts) : contracts[i].status = "active"} IN
    IF active = {} THEN Null
    ELSE LET c == contracts[CHOOSE i \in active : \A j \in active : i <= j] IN
         CASE c.paymentFrequency = "monthly" -> NumMul(c.amount, Whole(12))
           [] c.paymentFrequency = "quarterly" -> NumMul(c.amount, Whole(4))
           [] c.paymentFrequency = "annually" -> c.amount
           [] c.paymentFrequency = "one-time" -> c.amount
           [] OTHER -> Null

\* Math.round(app.totalLicenses || 0) - Math.round(usage.activeUsers)
UnusedLicenses(app, usage) ==
    NumSub(MathRound(OrElse(app.totalLicenses, Whole(0))), MathRound(usage.activeUsers))

\* annualCost ? (annualCost / (app.totalLicenses || 1)) * unusedLicenses : null
PotentialSavings(app, annualCost, unusedLicenses) ==
    IF Truthy(annualCost)
    THEN NumMul(NumDiv(annualCost, OrElse(app.totalLicenses, Whole(1))), unusedLicenses)
    ELSE Null

\* Mutant of ResultRow: the unused licenses are reported as computed.
ResultRowUnclamped(app, usage, contracts) ==
    LET annualCost == AnnualCost(contracts)
        unusedLicenses == UnusedLicenses(app, usage)
        potentialSavings == PotentialSavings(app, annualCost, unusedLicenses)
    IN [applicationName |-> app.name,
        activeUsersPercent |-> usage.activePercent,
        totalLicenses |-> OrElse(app.totalLicenses, Whole(0)),
        unusedLicenses |-> unusedLicenses,
        annualCost |-> annualCost,
        potentialSavings |-> IF Truthy(potentialSavings) /\ NumLt(Whole(0), potentialSavings)
                             THEN potentialSavings ELSE Null]

\* The object pushed to results for an application below the threshold.
ResultRow(app, usage, contracts) ==
    LET annualCost == AnnualCost(contracts)
        unusedLicenses == UnusedLicenses(app, usage)
        potentialSavings == PotentialSavings(app, annualCost, unusedLicenses)
    IN [applicationName |-> app.name,
        activeUsersPercent |-> usage.activePercent,
        totalLicenses |-> OrElse(app.totalLicenses, Whole(0)),
        unusedLicenses |-> IF NumLt(Whole(0), unusedLicenses) THEN unusedLicenses ELSE Whole(0),
        annualCost |-> annualCost,
        potentialSavings |-> IF Truthy(potentialSavings) /\ NumLt(Whole(0), potentialSavings)
                             THEN potentialSavings ELSE Null]

\* The comparator of the sort: negative when a goes first.
CompareSavings(a, b) ==
    IF a.potentialSavings = Null /\ b.potentialSavings = Null THEN 0
    ELSE IF a.potentialSavings = Null THEN 1
    ELSE IF b.potentialSavings = Null THEN -1
    ELSE NumSub(b.potentialSavings, a.potentialSavings).num

\* Mutant of SortRows: a row goes before the rows it ties with.
RECURSIVE SortRowsUnstable(_)
SortRowsUnstable(rows) ==
    IF rows = <<>> THEN <<>>
    ELSE LET sorted == SortRowsUnstable(SubSeq(rows, 1, Len(rows) - 1))
             x == rows[Len(rows)]
             k == Cardinality({i \in 1..Len(sorted) :
                                 \A j \in 1..i : CompareSavings(sorted[j], x) < 0})
         IN SubSeq(sorted, 1, k) \o <<x>> \o SubSeq(sorted, k + 1, Len(sorted))

\* Mutant of SortRows: the rows are left in the order they were pushed.
SortRowsNot(rows) == rows

\* results.sort(comparator): Array.prototype.sort is stable, so each row
\* goes behind the rows before it that the comparator does not put after it.
RECURSIVE SortRows(_)
SortRows(rows) ==
    IF rows = <<>> THEN <<>>
    ELSE LET sorted == SortRows(SubSeq(rows, 1, Len(rows) - 1))
             x == rows[Len(rows)]
             k == Cardinality({i \in 1..Len(sorted) :
                                 \A j \in 1..i : CompareSavings(sorted[j], x) <= 0})
         IN SubSeq(sorted, 1, k) \o <<x>> \o SubSeq(sorted, k + 1, Len(sorted))

\* The threshold each server compares with: server.ts and the McpServer tool
\* default an absent argument to 50; the CallTool handler takes
\* (args.thresholdPercent as number) || 50.
ThresholdOf(server, thresholdPercent) ==
    IF server = CallToolServer THEN OrElse(thresholdPercent, Whole(50))
    ELSE IF thresholdPercent = Undefined THEN Whole(50)
    ELSE thresholdPercent

\* The loop over the applications from the i-th on.  A failed fetch of usage
\* or contracts is caught in server-new.ts, and the application skipped; in
\* server.ts it leaves the loop and the function.
RECURSIVE ForEachApp(_, _, _, _, _, _, _, _)
ForEachApp(server, st, world, apps, i, threshold, results, t) ==
    IF i > Len(apps) THEN Returned(st, SortRows(results))
    ELSE CHOOSE r \in
        {IF ~a1.outcome.ok
         THEN IF server = FastMcp THEN Thrown(a1, a1.outcome.error)
              ELSE ForEachApp(server, a1, world, apps, i + 1, threshold, results, t)
         ELSE CHOOSE r2 \in
             {IF ~a2.outcome.ok
              THEN IF server = FastMcp THEN Thrown(a2, a2.outcome.error)
                   ELSE ForEachApp(server, a2, world, apps, i + 1, threshold, results, t)
              ELSE ForEachApp(server, a2, world, apps, i + 1, threshold,
                       IF NumLt(a1.outcome.value.activePercent, threshold)
                       THEN Append(results,
                                ResultRow(apps[i], a1.outcome.value, a2.outcome.value))
                       ELSE results, t) :
              a2 \in {Await(a1, world, "getApplicationContracts", <<Str(apps[i].id)>>, t)}} : TRUE :
         a1 \in {Await(st, world, "getApplicationUsage", <<Str(apps[i].id)>>, t)}} : TRUE

\* find_underutilized_applications
FindUnderutilized(server, c, world, thresholdPercent, t) ==
    CHOOSE r \in
        {IF ~a.outcome.ok THEN Thrown(a, a.outcome.error)
         ELSE ForEachApp(server, a, world, a.outcome.value, 1,
                         ThresholdOf(server, thresholdPercent), <<>>, t) :
         a \in {Await(Begin(c), world, "getApplications", <<>>, t)}} : TRUE

(***************************************************************************)
(* AnalyzerSpec: find_underutilized_applications invoked on one of the     *)
(* servers over an upstream that stays as it is.                           *)
(***************************************************************************)
\* The data the upstream has: licence counts (0.5 is what an average or a
\* pro-rated seat gives), active users, and contracts (a negative amount is
\* what a credit gives).
Licenses == {Undefined, Whole(0), Frac(1, 2), Whole(10), Whole(100)}
ActiveUsers == {Whole(0), Frac(3, 2), Whole(15)}
Frequencies == {"monthly", "quarterly", "annually", "one-time"}
Contracts ==
    [status : {"active"}, paymentFrequency : Frequencies, amount : {Whole(1200)}]
    \cup {[status |-> "expired", paymentFrequency |-> "monthly", amount |-> Whole(1200)]}
ContractLists ==
    UNION {[1..n -> Contracts] : n \in 0..MaxContracts}
    \cup {<<[status |-> "active", paymentFrequency |-> "monthly", amount |-> Whole(0)]>>,
          <<[status |-> "active", paymentFrequency |-> "annually", amount |-> Whole(-1200)]>>}

\* What is known of one application.
Profile(totalLicenses, activePercent, activeUsers, contracts) ==
    [totalLicenses |-> totalLicenses,
     usage |-> [activePercent |-> Whole(activePercent), activeUsers |-> activeUsers],
     contracts |-> contracts]

\* Every profile of an application at 30 percent, and a few at other levels.
Profiles ==
    {Profile(l, 30, u, cs) : l \in Licenses, u \in ActiveUsers, cs \in ContractLists}
SomeContract(frequency) ==
    <<[status |-> "active", paymentFrequency |-> frequency, amount |-> Whole(1200)]>>
SomeProfiles ==
    {Profile(Whole(100), 30, Whole(20), SomeContract("monthly")),
     Profile(Whole(10), 30, Whole(0), SomeContract("annually")),
     Profile(Whole(10), 30, Whole(15), <<>>),
     Profile(Whole(10), 50, Whole(0), SomeContract("annually")),
     Profile(Whole(10), 60, Whole(0), SomeContract("monthly"))}

\* The ids the upstream gives its applications, in list order.
PortfolioIds == <<"a", "b", "c", "d", "e", "f">>
AppOf(i, profile) ==
    [id |-> <<PortfolioIds[i]>>, name |-> <<"App ", PortfolioIds[i]>>,
     totalLicenses |-> profile.totalLicenses]

\* The upstream with these profiles, in this order.
UpstreamOf(server, profiles, down) ==
    [server |-> server,
     apps |-> [i \in 1..Len(profiles) |-> AppOf(i, profiles[i])],
     usage |-> [id \in {<<PortfolioIds[i]>> : i \in 1..Len(profiles)} |->
                  profiles[CHOOSE i \in 1..Len(profiles) : <<PortfolioIds[i]>> = id].usage],
     contracts |-> [id \in {<<PortfolioIds[i]>> : i \in 1..Len(profiles)} |->
                  profiles[CHOOSE i \in 1..Len(profiles) : <<PortfolioIds[i]>> = id].contracts],
     down |-> down,
     failure |-> 500]

\* One application of any profile, served without failure; or several of the
\* few profiles, the upstream failing for the usage of the first, for the
\* contracts of the second, for the list, or not at all.
AnalyzerUpstreams(server) ==
    {UpstreamOf(server, <<p>>, {}) : p \in Profiles}
    \cup {UpstreamOf(server, ps, down) :
            ps \in UNION {[1..n -> SomeProfiles] : n \in 2..MaxApps},
            down \in {{}, {<<"getApplicationUsage", <<PortfolioIds[1]>>>>},
                      {<<"getApplicationContracts", <<PortfolioIds[2]>>>>},
                      {<<"getApplications", AnyId>>}}}

\* What a host passes as thresholdPercent: nothing, or a percentage.
Thresholds == {Undefined, Whole(0), Whole(50), Whole(100)}

AnalyzerInit ==
    /\ cache = [k \in {} |-> Undefined]
    /\ now = 0
    /\ ret = NoOp
    /\ hist = [k \in ClientKeys |-> Fresh]
    /\ fetched = 0
    /\ call = NoCall
    /\ tool = NoTool
    /\ \E server \in Servers : upstream \in AnalyzerUpstreams(server)
    /\ heap = NoHeap

\* A host invokes find_underutilized_applications.
Analyze(thresholdPercent) ==
    /\ MayInvoke
    /\ \E r \in {FindUnderutilized(upstream.server, cache, upstream, thresholdPercent, now)} :
        /\ cache' = r.cache
        /\ tool' = ToolRecord("find_underutilized_applications", thresholdPercent, r)
    /\ UNCHANGED <<now, ret, hist, fetched, call, upstream, heap>>

AnalyzerNext == \E thresholdPercent \in Thresholds : Analyze(thresholdPercent)

AnalyzerSpec == AnalyzerInit /\ [][AnalyzerNext]_vars

(***************************************************************************)
(* Claims about the resolution of idOrName, checked under ResolverSpec.    *)
(***************************************************************************)
Invoked == tool # NoTool /\ tool.input # <<>>

\* The gateway calls of the invocation for one operation.
CallsOf(op) == {i \in 1..Len(tool.calls) : tool.calls[i].op = op}
ListFetched == CallsOf("getApplications") # {}

\* The invocation began by looking the input up as an id.
DirectLookup ==
    /\ tool.calls # <<>>
    /\ tool.calls[1].op = "getApplication"
    /\ tool.calls[1].args = <<Str(tool.input)>>

\* The gateway operation the tool is for, and its last gateway call.
DownstreamOp ==
    IF tool.name = "get_application_details" THEN "getApplication" ELSE IdOrNameOp(tool.name)
LastCall == tool.calls[Len(tool.calls)]

\* The first application in list order of this name after case folding, 0
\* if there is none.
FirstNamed(apps, input) ==
    IF \E i \in 1..Len(apps) : ToLowerCase(apps[i].name) = ToLowerCase(input)
    THEN CHOOSE i \in 1..Len(apps) :
            /\ ToLowerCase(apps[i].name) = ToLowerCase(input)
            /\ \A j \in 1..(i - 1) : ToLowerCase(apps[j].name) # ToLowerCase(input)
    ELSE 0

\* C11: resolver short-circuit.  When the input matches the ID pattern and
\* the direct getApplication(id) lookup succeeds, the invocation makes no
\* call to getApplications; nor does a tool that uses such an input as the
\* id without looking it up.
C11_NoListFetch ==
    /\ (Invoked /\ IdPattern(tool.input) /\ DirectLookup /\ tool.calls[1].ok)
           => (~ListFetched /\ Len(tool.calls) = 1 /\ tool.outcome.ok)
    /\ (Invoked /\ IdPattern(tool.input) /\ ~DirectLookup) => ~ListFetched

\* get_application_details for an id the upstream has: one gateway call.
C11_Witness ==
    /\ Invoked
    /\ tool.name = "get_application_details"
    /\ IdPattern(tool.input)
    /\ DirectLookup /\ tool.calls[1].ok
    /\ Len(upstream.apps) = Cardinality(AppIds)
    /\ ~ListFetched

\* C12: resolver name match.  For a name-style input, with the list fetched,
\* the downstream gateway call is made with the id of the first application
\* in list order whose name equals the input after case folding; a name that
\* only starts like the input, or no name, gets no downstream call.
C12_FirstExactNameMatch ==
    (Invoked /\ ~IdPattern(tool.input) /\ ListFetched
        /\ tool.calls[CHOOSE i \in CallsOf("getApplications") : TRUE].ok) =>
        LET i == FirstNamed(upstream.apps, tool.input) IN
        IF i # 0
        THEN /\ LastCall.op = DownstreamOp
             /\ LastCall.args[1] = Str(upstream.apps[i].id)
             /\ tool.calls[Len(tool.calls) - 1].op = "getApplications"
        ELSE LastCall.op = "getApplications" /\ ~tool.outcome.ok

\* Two applications share the name after case folding, and the input is in
\* a third case: the call goes to the first of them.
C12_Witness ==
    /\ Invoked /\ ~IdPattern(tool.input)
    /\ tool.name = "get_application_usage"
    /\ Len(upstream.apps) = 2
    /\ upstream.apps[1].name # upstream.apps[2].name
    /\ \A i \in 1..2 : upstream.apps[i].name # tool.input
    /\ \A i \in 1..2 : ToLowerCase(upstream.apps[i].name) = ToLowerCase(tool.input)
    /\ LastCall.op = "getApplicationUsage"
    /\ LastCall.args[1] = Str(upstream.apps[1].id)
    /\ tool.outcome.ok

\* C13 as stated: when no application matches the input by id or by
\* case-folded name, resolution fails with a NotFound error whose message
\* contains the input, and no usage, contract or license call is made.
C13_MissIsNotFound ==
    (Invoked /\ upstream.down = {}
        /\ IndexOfId(upstream.apps, tool.input) = 0
        /\ FirstNamed(upstream.apps, tool.input) = 0) =>
        /\ ~tool.outcome.ok
        /\ tool.raised.code = NotFound
        /\ Names(tool.raised.message, tool.input)
        /\ \A i \in 1..Len(tool.calls) : tool.calls[i].op \notin
              {"getApplicationUsage", "getApplicationContracts", "getApplicationLicenses"}

\* C14 as stated: for every tool that takes idOrName, whenever the input is
\* not the id of an application, ID-shaped or not, the full list is fetched
\* and searched by name before the invocation fails.
C14_FallbackToList ==
    (Invoked /\ IndexOfId(upstream.apps, tool.input) = 0) =>
        /\ ListFetched
        /\ FirstNamed(upstream.apps, tool.input) # 0 /\ upstream.down = {}
              => LastCall.args[1] = Str(upstream.apps[FirstNamed(upstream.apps, tool.input)].id)


(***************************************************************************)
(* Claims about find_underutilized_applications, checked under             *)
(* AnalyzerSpec.                                                           *)
(***************************************************************************)
Analyzed == tool.name = "find_underutilized_applications"

\* The rows of the answer, in its order.
Rows ==
    IF upstream.server = FastMcp THEN tool.outcome.content
    ELSE tool.outcome.content[1].text.json
RowsOf(app) == {i \in 1..Len(Rows) : Rows[i].applicationName = app.name}
AppOfRow(row) ==
    upstream.apps[CHOOSE i \in 1..Len(upstream.apps) :
                      upstream.apps[i].name = row.applicationName]

\* The gateway answered this operation for the application.
FetchedFor(op, app) ==
    \E i \in 1..Len(tool.calls) :
        /\ tool.calls[i].op = op
        /\ tool.calls[i].args = <<Str(app.id)>>
        /\ tool.calls[i].ok

\* The threshold of the invocation: the one supplied, 50 when none is.
GivenThreshold == IF tool.input = Undefined THEN Whole(50) ELSE tool.input
Qualifies(app) == NumLt(upstream.usage[app.id].activePercent, GivenThreshold)

\* C15: for every threshold in 0..100 (50 only when none is supplied), an
\* application whose usage and contracts were fetched is in the result
\* exactly when its usage.activePercent is strictly below the threshold.
C15_InclusionBelowThreshold ==
    (Analyzed /\ tool.outcome.ok) =>
        \A i \in 1..Len(upstream.apps) :
            (/\ FetchedFor("getApplicationUsage", upstream.apps[i])
             /\ FetchedFor("getApplicationContracts", upstream.apps[i])) =>
                (RowsOf(upstream.apps[i]) # {} <=> Qualifies(upstream.apps[i]))

\* The payments a year of a frequency, and the first active contract.
PaymentsAYear(frequency) ==
    CASE frequency = "monthly" -> 12
      [] frequency = "quarterly" -> 4
      [] OTHER -> 1
ActiveContracts(contracts) ==
    {i \in 1..Len(contracts) : contracts[i].status = "active"}
FirstActive(contracts) ==
    contracts[CHOOSE i \in ActiveContracts(contracts) :
                  \A j \in ActiveContracts(contracts) : i <= j]

\* C16: a row's annualCost is the amount of the first active contract of the
\* application, in list order, times 12 when it is paid monthly, times 4
\* when quarterly, and as it is when annually or one-time; it is null
\* exactly when the application has no active contract.
C16_AnnualCostNormalized ==
    (Analyzed /\ tool.outcome.ok) =>
        \A i \in 1..Len(Rows) :
            \E contracts \in {upstream.contracts[AppOfRow(Rows[i]).id]} :
                /\ Rows[i].annualCost = Null <=> ActiveContracts(contracts) = {}
                /\ ActiveContracts(contracts) # {} =>
                    \E c \in {FirstActive(contracts)} :
                        Rows[i].annualCost =
                            Frac(c.amount.num * PaymentsAYear(c.paymentFrequency),
                                 c.amount.den)

\* Two active contracts of different frequencies: the first one decides.
C16_Witness ==
    /\ Analyzed /\ tool.outcome.ok
    /\ \E i \in 1..Len(Rows) :
        \E contracts \in {upstream.contracts[AppOfRow(Rows[i]).id]} :
            /\ Len(contracts) = 2
            /\ ActiveContracts(contracts) = {1, 2}
            /\ contracts[1].paymentFrequency = "quarterly"
            /\ contracts[2].paymentFrequency = "monthly"
            /\ Rows[i].annualCost = Whole(4800)

\* The integer nearest to x >= 0, a half going up; a missing count is 0.
Nearest(x) ==
    IF ~IsNumber(x) THEN 0
    ELSE CHOOSE n \in 0..(x.num + 1) :
            /\ (2 * n - 1) * x.den <= 2 * x.num
            /\ 2 * x.num < (2 * n + 1) * x.den
Unused(app) ==
    IF Nearest(app.totalLicenses) > Nearest(upstream.usage[app.id].activeUsers)
    THEN Nearest(app.totalLicenses) - Nearest(upstream.usage[app.id].activeUsers)
    ELSE 0

\* C17: in every row unusedLicenses is
\* max(0, round(totalLicenses) - round(activeUsers)), so never negative,
\* also when the active users exceed the licenses or totalLicenses is missing.
C17_UnusedLicensesClamped ==
    (Analyzed /\ tool.outcome.ok) =>
        \A i \in 1..Len(Rows) :
            /\ Rows[i].unusedLicenses = Whole(Unused(AppOfRow(Rows[i])))
            /\ Rows[i].unusedLicenses.num >= 0

\* No totalLicenses and 15 active users: 0 unused licenses.
C17_Witness ==
    /\ Analyzed /\ tool.outcome.ok
    /\ \E i \in 1..Len(Rows) :
        /\ AppOfRow(Rows[i]).totalLicenses = Undefined
        /\ upstream.usage[AppOfRow(Rows[i]).id].activeUsers = Whole(15)
        /\ Rows[i].unusedLicenses = Whole(0)

\* max(totalLicenses, 1), a missing count being 0.
AtLeastOne(totalLicenses) ==
    IF ~IsNumber(totalLicenses) \/ NumLt(totalLicenses, Whole(1)) THEN Whole(1)
    ELSE totalLicenses
SavingsOf(row) ==
    IF row.annualCost = Null THEN Null
    ELSE NumMul(NumDiv(row.annualCost, AtLeastOne(AppOfRow(row).totalLicenses)),
                row.unusedLicenses)

\* C18: in every row potentialSavings is
\* (annualCost / max(totalLicenses, 1)) * unusedLicenses when annualCost is
\* known and that value is positive, and null otherwise.
C18_PotentialSavings ==
    (Analyzed /\ tool.outcome.ok) =>
        \A i \in 1..Len(Rows) :
            \E value \in {SavingsOf(Rows[i])} :
                Rows[i].potentialSavings =
                    IF value # Null /\ NumLt(Whole(0), value) THEN value ELSE Null

\* C19: every row with a numeric potentialSavings precedes every row whose
\* potentialSavings is null, and the numeric rows are in non-increasing order.
C19_SavingsDescendingNullsLast ==
    (Analyzed /\ tool.outcome.ok) =>
        \A i, j \in 1..Len(Rows) :
            i < j =>
                /\ Rows[i].potentialSavings = Null => Rows[j].potentialSavings = Null
                /\ (Rows[i].potentialSavings # Null /\ Rows[j].potentialSavings # Null) =>
                    ~NumLt(Rows[i].potentialSavings, Rows[j].potentialSavings)

\* Three rows that come back in the reverse of the order of the applications:
\* the first application has no savings, the third the highest.
C19_Witness ==
    /\ Analyzed /\ tool.outcome.ok
    /\ Len(upstream.apps) >= 3
    /\ Len(Rows) = 3
    /\ Rows[1].applicationName = upstream.apps[3].name
    /\ Rows[2].applicationName = upstream.apps[2].name
    /\ Rows[3].applicationName = upstream.apps[1].name
    /\ Rows[3].potentialSavings = Null
    /\ Rows[2].potentialSavings # Null
    /\ NumLt(Rows[2].potentialSavings, Rows[1].potentialSavings)

\* The upstream fails for the usage or the contracts of the application.
FailsFor(app) ==
    \/ IsDown(upstream, "getApplicationUsage", <<Str(app.id)>>)
    \/ IsDown(upstream, "getApplicationContracts", <<Str(app.id)>>)

\* C20: when the fetch of usage or contracts fails for one application, the
\* invocation does not fail: that application is skipped and every other
\* application that qualifies has its row.
C20_PartialFailureTolerated ==
    (/\ Analyzed
     /\ ~IsDown(upstream, "getApplications", <<>>)
     /\ \E i \in 1..Len(upstream.apps) : FailsFor(upstream.apps[i])) =>
        /\ tool.outcome.ok
        /\ \A i \in 1..Len(upstream.apps) :
            IF FailsFor(upstream.apps[i]) THEN RowsOf(upstream.apps[i]) = {}
            ELSE Qualifies(upstream.apps[i]) => RowsOf(upstream.apps[i]) # {}

(***************************************************************************)
(* Claims about clearCache, checked under Spec.                            *)
(***************************************************************************)
\* C21: clear() removes all entries regardless of expiry state.  After
\* clearCache, size() is 0 and get returns absent for every key, and the next
\* call of any operation issues an upstream request.
C21_ClearRemovesAll ==
    /\ [](JustCleared =>
            /\ CacheSize(cache) = 0
            /\ \A p \in Pairs : CacheGet(cache, KeyOf[p], now).value = Undefined)
    /\ [][(JustCleared /\ Called') => (call'.sent = 1 /\ call'.resp \in Responses)]_vars

\* clearCache ran on a cache with an entry whose expiry time was still ahead.
C21_Witness ==
    /\ JustCleared
    /\ call.before.unexpired
    /\ CacheSize(cache) = 0

(***************************************************************************)
(* Claims about objects in the cache, checked under MutationSpec.          *)
(***************************************************************************)
\* C22: a cached entry is not affected by mutation of the value object after
\* insertion.  Whatever the client does to the object it passed to set or got
\* back from get, a get that finds the entry returns the value as it was at
\* set time; and a set on a key replaces both the value and the expiry time.
C22_EntryUnaffectedByMutation ==
    /\ (ret.op = "get" /\ ret.value # Undefined /\ hist[ret.key].pending) =>
            Deref(heap, ret.value) = hist[ret.key].data
    /\ ret.op = "set" =>
            cache[ret.key] = [data |-> ret.data, expires |-> now + ret.ttl * 1000]

(***************************************************************************)
(* Claims about gateway failures in the tools, checked under ResolverSpec. *)
(***************************************************************************)
\* The gateway calls of the invocation that the upstream failed.
FailedCalls ==
    {i \in 1..Len(tool.calls) :
        ~tool.calls[i].ok /\ IsDown(upstream, tool.calls[i].op, tool.calls[i].args)}

\* C23: no gateway error is silently swallowed.  Whenever a gateway call made
\* during a tool invocation fails, for example the direct getApplication
\* lookup of get_application_details with Unauthorized or RateLimitExceeded,
\* the invocation fails: the failure is not replaced by a later success.
C23_NoErrorSwallowed ==
    (Invoked /\ FailedCalls # {}) => ~tool.outcome.ok

(***************************************************************************)
(* Further claims about find_underutilized_applications, checked under     *)
(* AnalyzerSpec.                                                           *)
(***************************************************************************)
\* The place of a row's application in the application list.
AppIndex(row) ==
    CHOOSE i \in 1..Len(upstream.apps) : upstream.apps[i].name = row.applicationName

\* C24: the final sort is stable.  Rows with equal potentialSavings, and all
\* rows with null potentialSavings, keep the relative order in which their
\* applications appear in the application list.
C24_StableSort ==
    (Analyzed /\ tool.outcome.ok) =>
        \A i, j \in 1..Len(Rows) :
            (i < j /\ Rows[i].potentialSavings = Rows[j].potentialSavings) =>
                AppIndex(Rows[i]) < AppIndex(Rows[j])

\* Two applications with the same savings behind one without: the two come
\* first, in the order of the list.
C24_Witness ==
    /\ Analyzed /\ tool.outcome.ok
    /\ Len(Rows) = 3
    /\ Rows[1].potentialSavings # Null
    /\ Rows[1].potentialSavings = Rows[2].potentialSavings
    /\ Rows[3].potentialSavings = Null
    /\ AppIndex(Rows[3]) = 1
    /\ AppIndex(Rows[1]) = 2
    /\ AppIndex(Rows[2]) = 3

(***************************************************************************)
(* Claims about retries and TTLs of the gateway, checked under Spec.       *)
(***************************************************************************)
\* C25: no automatic retries.  One invocation of a gateway operation issues
\* at most one upstream request, and a request that is rate-limited or fails
\* otherwise makes the call, and the tool that made it, fail.
C25_NoRetries ==
    Called =>
        /\ call.sent \in {0, 1}
        /\ (call.sent > 0 /\ call.resp.status # 200) =>
              /\ ~call.outcome.ok
              /\ tool # NoTool => ~tool.outcome.ok

\* A rate-limited request: one request, and the call has failed.
C25_Witness ==
    /\ Called
    /\ call.resp.status = 429
    /\ call.sent = 1
    /\ ~call.outcome.ok

\* C26: every cached gateway operation has a defined, finite, positive TTL,
\* so the entry a call stores has an expiry time that lies ahead and that
\* Date.now() will pass: no entry of the cache is without one.
C26_EntriesExpire ==
    /\ (Called /\ call.sent > 0 /\ call.outcome.ok) =>
          /\ CacheTtl(call.op) # NaN /\ CacheTtl(call.op) > 0
          /\ call.key \in DOMAIN cache
          /\ cache[call.key].expires = now + CacheTtl(call.op) * 1000
    /\ \A k \in DOMAIN cache : cache[k].expires # NaN


(***************************************************************************)
(* Toolsets: MCP_ENABLED_TOOLSETS and the tools each server offers.        *)
(***************************************************************************)
\* The toolsets of README.md and the tools of each, in the order of the
\* tool listing.
Toolsets == {"applications", "contracts", "licenses", "security", "analytics",
             "recommendations"}
ToolList == <<"list_applications", "get_application_details", "get_application_usage",
              "get_contracts", "get_application_contracts", "get_application_licenses",
              "get_shadow_it", "get_spend_analytics", "get_license_recommendations",
              "get_renewal_alerts", "find_underutilized_applications">>
AllTools == {ToolList[i] : i \in 1..Len(ToolList)}
ToolsetOf(name) ==
    CASE name \in {"list_applications", "get_application_details",
                   "get_application_usage"} -> "applications"
      [] name \in {"get_contracts", "get_application_contracts"} -> "contracts"
      [] name = "get_application_licenses" -> "licenses"
      [] name = "get_shadow_it" -> "security"
      [] name = "get_spend_analytics" -> "analytics"
      [] name \in {"get_license_recommendations", "get_renewal_alerts",
                   "find_underutilized_applications"} -> "recommendations"

\* String.prototype.split(','): the pieces between the commas.
RECURSIVE SplitAtCommas(_)
SplitAtCommas(s) ==
    LET commas == {i \in 1..Len(s) : s[i] = ","} IN
    IF commas = {} THEN <<s>>
    ELSE LET i == CHOOSE c \in commas : \A d \in commas : c <= d
         IN <<SubSeq(s, 1, i - 1)>> \o SplitAtCommas(SubSeq(s, i + 1, Len(s)))

\* String.prototype.trim(): without the blanks at either end.
RECURSIVE Trim(_)
Trim(s) ==
    IF s = <<>> THEN s
    ELSE IF s[1] = " " THEN Trim(Tail(s))
    ELSE IF s[Len(s)] = " " THEN Trim(SubSeq(s, 1, Len(s) - 1))
    ELSE s

\* enabledToolsets: the trimmed pieces of MCP_ENABLED_TOOLSETS, ['all'] when
\* the variable is unset or empty.
EnabledToolsets(env) ==
    IF env = Undefined \/ env = Str(<<>>) THEN <<(<<"all">>)>>
    ELSE [i \in 1..Len(SplitAtCommas(env.s)) |-> Trim(SplitAtCommas(env.s)[i])]

\* isToolsetEnabled(toolset)
IsToolsetEnabled(enabledToolsets, toolset) ==
    IF \E i \in 1..Len(enabledToolsets) : enabledToolsets[i] = <<"all">> THEN TRUE
    ELSE \E i \in 1..Len(enabledToolsets) : enabledToolsets[i] = <<toolset>>

\* The tools a server has after start-up: the switch of the CallTool handler
\* has a case for every tool whatever the toolsets; server-new.ts's McpServer
\* registers the tools of the enabled toolsets; server.ts registers its ten
\* tools and does not read MCP_ENABLED_TOOLSETS.
RegisteredTools(server, enabledToolsets) ==
    CASE server = CallToolServer -> AllTools
      [] server = McpServer ->
            {name \in AllTools : IsToolsetEnabled(enabledToolsets, ToolsetOf(name))}
      [] server = FastMcp -> AllTools \ {"get_contracts"}

\* The tool listing: the ListTools handler pushes the tools of the enabled
\* toolsets; the other two servers list what is registered.
ListedTools(server, enabledToolsets) ==
    IF server = CallToolServer
    THEN SelectSeq(ToolList,
                   LAMBDA name : IsToolsetEnabled(enabledToolsets, ToolsetOf(name)))
    ELSE SelectSeq(ToolList, LAMBDA name : name \in RegisteredTools(server, enabledToolsets))

\* What the SDK answers a call of a tool that was never registered: an
\* McpError, no handler of the server having run.
NotRegistered(name) == SdkMcpError(MethodNotFound, <<"Tool not found: ", name>>)

\* The body of a registered tool, called for the application `appId`.
Execute(server, c, world, name, appId, t) ==
    CASE name \in PassThroughTools ->
            Settles(Await(Begin(c), world, ToolOp(name),
                          ToolOpArgs(name, IF name = "get_spend_analytics"
                                           THEN <<Str(<<"last12months">>)>>
                                           ELSE IF name = "get_renewal_alerts"
                                           THEN <<Num(90)>> ELSE <<>>), t))
      [] name = "get_application_details" ->
            GetApplicationDetails(server, c, world, appId, t)
      [] name \in IdOrNameTools -> GetByIdOrName(server, c, world, name, appId, t)
      [] name = "find_underutilized_applications" ->
            FindUnderutilized(server, c, world, Undefined, t)

(***************************************************************************)
(* ToolsetSpec: a server started with a value of MCP_ENABLED_TOOLSETS is   *)
(* asked for its tool listing and called for each tool.                    *)
(***************************************************************************)
\* The values of MCP_ENABLED_TOOLSETS: unset, empty, and lists of toolsets
\* with and without 'all' and blanks.
EnvValues ==
    {Undefined, Str(<<>>), Str(<<"all">>), Str(<<"applications">>),
     Str(<<"applications", ",", " ", "contracts">>),
     Str(<<"recommendations", ",", "all">>),
     Str(<<"security", ",", "analytics", ",", "licenses", " ">>)}

\* The upstream of one application, and the environment of the server.
ToolsetUpstream(server, env) ==
    [server |-> server, env |-> env,
     apps |-> <<AppOf(1, Profile(Whole(10), 30, Whole(0), SomeContract("annually")))>>,
     usage |-> [id \in {<<PortfolioIds[1]>>} |-> [activePercent |-> Whole(30),
                                                  activeUsers |-> Whole(0)]],
     contracts |-> [id \in {<<PortfolioIds[1]>>} |-> SomeContract("annually")],
     down |-> {}, failure |-> 500]

ToolsetInit ==
    /\ cache = [k \in {} |-> Undefined]
    /\ now = 0
    /\ ret = NoOp
    /\ hist = [k \in ClientKeys |-> Fresh]
    /\ fetched = 0
    /\ call = NoCall
    /\ tool = NoTool
    /\ \E server \in Servers, env \in EnvValues : upstream = ToolsetUpstream(server, env)
    /\ heap = NoHeap

\* A host asks for the tool listing.
ListTools ==
    /\ MayInvoke
    /\ tool' = [n |-> Invocations + 1, name |-> "tools/list", input |-> Undefined,
                calls |-> <<>>, raised |-> Undefined,
                outcome |-> [ok |-> TRUE,
                             tools |-> ListedTools(upstream.server,
                                                   EnabledToolsets(upstream.env))]]
    /\ UNCHANGED <<cache, now, ret, hist, fetched, call, upstream, heap>>

\* A host calls the tool `name`.
CallTool(name) ==
    /\ MayInvoke
    /\ IF name \in RegisteredTools(upstream.server, EnabledToolsets(upstream.env))
       THEN \E r \in {Execute(upstream.server, cache, upstream, name,
                              upstream.apps[1].id, now)} :
                /\ cache' = r.cache
                /\ tool' = ToolRecord(name, upstream.apps[1].id, r)
       ELSE /\ cache' = cache
            /\ tool' = [n |-> Invocations + 1, name |-> name,
                        input |-> upstream.apps[1].id, calls |-> <<>>,
                        raised |-> Undefined,
                        outcome |-> [ok |-> FALSE, error |-> NotRegistered(name)]]
    /\ UNCHANGED <<now, ret, hist, fetched, call, upstream, heap>>

ToolsetNext == ListTools \/ \E name \in AllTools : CallTool(name)

ToolsetSpec == ToolsetInit /\ [][ToolsetNext]_vars

(***************************************************************************)
(* Claims about the toolsets, checked under ToolsetSpec.                   *)
(***************************************************************************)
\* The toolset is named in MCP_ENABLED_TOOLSETS, or 'all' is, or the variable
\* is not set.
Named(env, word) == \E i \in 1..Len(env.s) : env.s[i] = word
ToolsetOn(env, toolset) ==
    IF env = Undefined \/ env = Str(<<>>) THEN TRUE
    ELSE Named(env, "all") \/ Named(env, toolset)

\* C27: a tool whose toolset is not enabled is not in the tool listing, and a
\* call to it neither runs the tool nor makes a gateway request.
C27_DisabledToolsetHidden ==
    /\ (tool # NoTool /\ tool.name = "tools/list") =>
          \A i \in 1..Len(tool.outcome.tools) :
              ToolsetOn(upstream.env, ToolsetOf(tool.outcome.tools[i]))
    /\ (tool # NoTool /\ tool.name \in AllTools
          /\ ~ToolsetOn(upstream.env, ToolsetOf(tool.name))) =>
          /\ ~tool.outcome.ok
          /\ tool.calls = <<>>


(***************************************************************************)
(* Claims about the three implementations of                               *)
(* find_underutilized_applications, checked under AnalyzerSpec.            *)
(***************************************************************************)
\* What the implementation of another server does with the threshold of the
\* invocation over the same upstream.
ElsewhereOn(server) ==
    FindUnderutilized(server, [k \in {} |-> Undefined], upstream, tool.input, now)

\* C28: for the same threshold and the same gateway responses, the three
\* implementations return the same rows in the same order, or all fail.
C28_ImplementationsEquivalent ==
    Analyzed =>
        \A server \in Servers :
            \E r \in {ElsewhereOn(server)} :
                /\ r.ok = tool.outcome.ok
                /\ r.ok => r.value = Rows


(***************************************************************************)
(* Claims about cleanup and size, checked under CacheSpec.                 *)
(***************************************************************************)
\* The keys get returns a value for at time t.
Gettable(c, t) == {k \in ClientKeys : CacheGet(c, k, t).value # Undefined}

\* C29 as stated: cleanup removes exactly the entries whose expiry time is
\* strictly before now and leaves every other entry as it was; a get at any
\* time returns the same with and without the cleanup; and size() is never
\* below the number of keys get returns a value for.
C29_CleanupUnobservable ==
    /\ ret.op = "cleanup" =>
          /\ DOMAIN cache = {k \in DOMAIN ret.before : ret.before[k].expires >= now}
          /\ \A k \in DOMAIN cache : cache[k] = ret.before[k]
    /\ \A k \in ClientKeys, t \in Instants :
          CacheGet(CacheCleanup(cache, now), k, t).value = CacheGet(cache, k, t).value
    /\ \A t \in Instants : CacheSize(cache) >= Cardinality(Gettable(cache, t))

\* C29, amended: the same, for a get at the time of the cleanup or later; with
\* the clock set back behind the cleanup, get would have returned an entry
\* the cleanup removed.
C29_CleanupFrame ==
    /\ ret.op = "cleanup" =>
          /\ DOMAIN cache = {k \in DOMAIN ret.before : ret.before[k].expires >= now}
          /\ \A k \in DOMAIN cache : cache[k] = ret.before[k]
    /\ \A k \in ClientKeys, t \in Instants :
          t >= now => CacheGet(CacheCleanup(cache, now), k, t).value
                        = CacheGet(cache, k, t).value
    /\ \A t \in Instants : CacheSize(cache) >= Cardinality(Gettable(cache, t))

\* A cleanup found one entry past its expiry time and one at its expiry time:
\* it removed the first and kept the second.
C29_Witness ==
    /\ ret.op = "cleanup"
    /\ \E k \in DOMAIN ret.before : ret.before[k].expires < now /\ k \notin DOMAIN cache
    /\ \E k \in DOMAIN cache : cache[k].expires = now


(***************************************************************************)
(* Claims about the rows of find_underutilized_applications, checked       *)
(* under AnalyzerSpec.                                                     *)
(***************************************************************************)
\* C30: in every row a potentialSavings that is not null comes with an
\* annualCost that is a number other than 0, with unusedLicenses above 0 and
\* is itself above 0; a row whose annualCost is null or 0, or whose
\* unusedLicenses is 0, has potentialSavings null.
C30_SavingsNeedCostAndUnused ==
    (Analyzed /\ tool.outcome.ok) =>
        \A i \in 1..Len(Rows) :
            /\ Rows[i].potentialSavings # Null =>
                  /\ IsNumber(Rows[i].annualCost) /\ Rows[i].annualCost.num # 0
                  /\ NumLt(Whole(0), Rows[i].unusedLicenses)
                  /\ NumLt(Whole(0), Rows[i].potentialSavings)
            /\ (\/ Rows[i].annualCost = Null
                \/ Rows[i].annualCost = Whole(0)
                \/ Rows[i].unusedLicenses = Whole(0)) =>
                  Rows[i].potentialSavings = Null

====
